---------------------------- MODULE Spec2Model ----------------------------
(***************************************************************************)
(* Model of the ESP32 test station, src/slave/slave.ino.                   *)
(*                                                                         *)
(* The slave sketch (lines 1-193) is a poll loop that takes 3-byte frames  *)
(* {cmd, pinId, value} from the serial receive buffer, actuates the motor  *)
(* PWM channels, the motor direction pins, the servo and the NeoPixel, and *)
(* writes status bytes back to the serial line.  The master sketch (lines  *)
(* 194-315) turns lines of operator text into frames on the slave link     *)
(* and prints the status bytes that come back.                             *)
(***************************************************************************)
EXTENDS Integers, Sequences, FiniteSets, TLC

VARIABLES
    pc,        \* position of the slave: "setup", "loop", "process", "delay"
    rxBuf,     \* Serial receive buffer (bytes received, not yet read)
    cur,       \* locals cmd, pinId, value of loop() while processCommand runs
    hw,        \* outputs: LEDC duties, GPIO levels, pixel buffer, the LED
    tx,        \* every byte written with Serial.write, oldest first
    rxStream,  \* history: bytes received since the last boot
    frames,    \* history: frames read by loop() since the last boot
    last,      \* history: the last frame processed since boot, with the
               \*          outputs before it and the bytes it wrote
    txMark,    \* history: Len(tx) when the current boot started
    nRecv,     \* history: bytes received since power-on
    nFrames,   \* history: frames processed since power-on
    nBoots,    \* history: completed runs of setup() since power-on
    mpc,       \* position of the master: "setup", "loop"
    console,   \* lines of operator text waiting in the master's Serial
    link,      \* bytes the master wrote to Serial2, not yet at the slave
    mRead,     \* how many bytes of tx are behind the master's Serial2:
               \* read by it, or sent before it opened the port
    printed,   \* history: what the master printed in its loop, in order
    mLog       \* history: the lines the master has read, each with the
               \*          writes to Serial2 it made for it

\* The variables of the master.
mvars == <<mpc, console, link, mRead, printed, mLog>>

vars == <<pc, rxBuf, cur, hw, tx, rxStream, frames, last, txMark,
          nRecv, nFrames, nBoots, mpc, console, link, mRead, printed, mLog>>

---------------------------------------------------------------------------
(* Pin definitions, slave.ino lines 13-26.                                 *)

PIN_M1_PWM == 15
PIN_M1_AIN1 == 5
PIN_M1_AIN2 == 18
PIN_M2_PWM == 2
PIN_M2_AIN1 == 27
PIN_M2_AIN2 == 14
PIN_M3_PWM == 12
PIN_M3_AIN1 == 32
PIN_M3_AIN2 == 33
PIN_M4_PWM == 13
PIN_M4_AIN1 == 25
PIN_M4_AIN2 == 26
PIN_SERVO1 == 4

(* Protocol commands, slave.ino lines 32-37.                               *)
CMD_PWM == 1
CMD_DIGITAL == 2
CMD_SERVO == 3
CMD_NEOPIXEL == 4
CMD_PING == 240
CMD_RESET == 255

LOW == 0
HIGH == 1

\* uint8_t
Byte == 0 .. 255

\* Pins attached to the LEDC peripheral in setup() (lines 75-81).
LedcPins == {PIN_M1_PWM, PIN_M2_PWM, PIN_M3_PWM, PIN_M4_PWM, PIN_SERVO1}

\* Pins configured as OUTPUT in setup() (lines 59-66).
OutPins == {PIN_M1_AIN1, PIN_M1_AIN2, PIN_M2_AIN1, PIN_M2_AIN2,
            PIN_M3_AIN1, PIN_M3_AIN2, PIN_M4_AIN1, PIN_M4_AIN2}

\* An <<r, g, b>> colour of the single pixel.
Black == <<0, 0, 0>>

---------------------------------------------------------------------------
(* Bounds of the model.                                                    *)

\* Bytes received over the whole run of Spec.
MaxRecv == 6

\* Bytes that arrive on the line in Spec: the opcodes PWM, DIGITAL, NEOPIXEL,
\* PING and RESET, which are also motor ids (1, 2, 4) and palette values
\* (1, 2, 255), and 17 (0x11), a DIGITAL tag that is no opcode, no motor id
\* and no palette value.
ByteSample == {1, 2, 4, 17, 240, 255}

\* The single frame of FrameSpec.  Its opcode is one of the six commands or
\* 9, which is none of them, and then: every pinId with every value for PING;
\* for the other opcodes every pinId with a value of ValueSample, and every
\* value with a pinId of TargetSample.  Or its opcode is any byte, with
\* three pinIds and two values.
OpSample == {CMD_PWM, CMD_DIGITAL, CMD_SERVO, CMD_NEOPIXEL, CMD_PING,
             CMD_RESET, 9}

\* The motor ids 1 .. 4, the eight DIGITAL tags, and 0, 9 and 255.
TargetSample == {0, 1, 2, 3, 4, 9, 17, 18, 33, 34, 49, 50, 65, 66, 255}

\* The palette values, the ends and middle of the duty and angle ranges,
\* and 4, 181.
ValueSample == {0, 1, 2, 3, 4, 128, 180, 181, 255}

FrameDomain ==
    {f \in OpSample \X Byte \X Byte :
        \/ f[1] = CMD_PING
        \/ f[2] \in TargetSample
        \/ f[3] \in ValueSample}
    \cup (Byte \X {0, 1, 17} \X {0, 1})

\* Frames processed since boot before the single frame of FrameSpec: none,
\* or four that light the pixel red, run motor 2, raise M2_AIN1 and turn
\* the servo, or these four each followed by a frame that is answered ERROR
\* (unknown opcode, PWM and DIGITAL with an invalid target, NEOPIXEL with a
\* value outside the palette).
Preludes ==
    {<<>>,
     << <<4, 0, 1>>, <<1, 2, 128>>, <<2, 33, 1>>, <<3, 0, 90>> >>,
     << <<4, 0, 1>>, <<9, 0, 0>>, <<1, 2, 128>>, <<1, 9, 16>>,
        <<2, 33, 1>>, <<2, 1, 1>>, <<3, 0, 90>>, <<4, 0, 7>> >>}

---------------------------------------------------------------------------
(* Integer conversions of the C code.                                      *)

\* Conversion to uint8_t (arguments of processCommand, Serial.read results).
U8(x) == x % 256

\* Conversion to uint16_t (pwmVal, line 108).
U16(x) == x % 65536

\* map() of the ESP32 Arduino core 3.x the sketch is written for (lines 73,
\* 108, 135): long arithmetic, the quotient truncated.  All operands are
\* non-negative here, so \div is C's division.
\* Faulty variant: the quotient rounded to nearest, as map() of the ESP32
\* core 2.0.0 did.
map_rounding(x, in_min, in_max, out_min, out_max) ==
    ((x - in_min) * (out_max - out_min) + ((in_max - in_min) \div 2))
        \div (in_max - in_min) + out_min

\* map() as the code uses it.
map(x, in_min, in_max, out_min, out_max) ==
    ((x - in_min) * (out_max - out_min)) \div (in_max - in_min) + out_min

---------------------------------------------------------------------------
(* The serial port.                                                        *)

\* Serial.available(): the number of bytes in the receive buffer.
Serial_available(buf) == Len(buf)

\* Serial.read(): the oldest byte, removed from the buffer; -1, which the
\* uint8_t local turns into 255, when the buffer is empty.
Serial_read(buf) ==
    IF buf = <<>> THEN [byte |-> U8(-1), buf |-> <<>>]
                  ELSE [byte |-> Head(buf), buf |-> Tail(buf)]

\* The condition of line 94.
\* Faulty variant: if (Serial.available()).
FrameReady_anyByte(buf) == Serial_available(buf) >= 1

\* The condition as written.
FrameReady(buf) == Serial_available(buf) >= 3

---------------------------------------------------------------------------
(* processCommand, lines 103-172, as a function of the outputs and the     *)
(* frame.  An outcome o is the outputs o.hw after the call, the bytes      *)
(* o.out it wrote to Serial in order, and o.restart, whether it ended in   *)
(* ESP.restart().                                                          *)

\* sendResponse, lines 191-193.
sendResponse(o, resp) == [o EXCEPT !.out = Append(@, resp)]

\* ledcWrite(pin, duty), lines 110-113 and 136.
ledcWrite(o, pin, duty) == [o EXCEPT !.hw.ledc[pin] = duty]

\* digitalWrite(gpio, level), line 124.
digitalWrite(o, gpio, level) == [o EXCEPT !.hw.gpio[gpio] = level]

\* pixel.setPixelColor(0, r, g, b), lines 144-148.
setPixelColor(o, r, g, b) == [o EXCEPT !.hw.pixels = <<r, g, b>>]

\* pixel.show(), lines 86 and 151: the LED takes the buffered colour.
show(o) == [o EXCEPT !.hw.led = o.hw.pixels]

\* pinIdToGpio, lines 176-188.
\* Faulty variant: the two terminals of motor 1 exchanged.
pinIdToGpio_swapped(pinId) ==
    CASE pinId = 17 -> PIN_M1_AIN2
      [] pinId = 18 -> PIN_M1_AIN1
      [] pinId = 33 -> PIN_M2_AIN1
      [] pinId = 34 -> PIN_M2_AIN2
      [] pinId = 49 -> PIN_M3_AIN1
      [] pinId = 50 -> PIN_M3_AIN2
      [] pinId = 65 -> PIN_M4_AIN1
      [] pinId = 66 -> PIN_M4_AIN2
      [] OTHER -> -1

\* The table as written.
pinIdToGpio(pinId) ==
    CASE pinId = 17 -> PIN_M1_AIN1
      [] pinId = 18 -> PIN_M1_AIN2
      [] pinId = 33 -> PIN_M2_AIN1
      [] pinId = 34 -> PIN_M2_AIN2
      [] pinId = 49 -> PIN_M3_AIN1
      [] pinId = 50 -> PIN_M3_AIN2
      [] pinId = 65 -> PIN_M4_AIN1
      [] pinId = 66 -> PIN_M4_AIN2
      [] OTHER -> -1

\* case CMD_PWM, lines 107-118.  The default branch returns after its
\* response; the other branches break to the response of line 116.
\* Faulty variant: the default branch breaks instead of returning.
CasePWM_noReturn(o, pinId, value) ==
    LET pwmVal == U16(map(value, 0, 255, 0, 1023))
        w == CASE pinId = 1 -> ledcWrite(o, PIN_M1_PWM, pwmVal)
               [] pinId = 2 -> ledcWrite(o, PIN_M2_PWM, pwmVal)
               [] pinId = 3 -> ledcWrite(o, PIN_M3_PWM, pwmVal)
               [] pinId = 4 -> ledcWrite(o, PIN_M4_PWM, pwmVal)
               [] OTHER -> sendResponse(o, 238)
    IN  sendResponse(w, 1)

\* The case as written.
CasePWM(o, pinId, value) ==
    LET pwmVal == U16(map(value, 0, 255, 0, 1023))
    IN  CASE pinId = 1 -> sendResponse(ledcWrite(o, PIN_M1_PWM, pwmVal), 1)
          [] pinId = 2 -> sendResponse(ledcWrite(o, PIN_M2_PWM, pwmVal), 1)
          [] pinId = 3 -> sendResponse(ledcWrite(o, PIN_M3_PWM, pwmVal), 1)
          [] pinId = 4 -> sendResponse(ledcWrite(o, PIN_M4_PWM, pwmVal), 1)
          [] OTHER -> sendResponse(o, 238)

\* case CMD_DIGITAL, lines 121-130.
\* Faulty variant: no response for an unknown tag.
CaseDIGITAL_silentError(o, pinId, value) ==
    LET gpio == pinIdToGpio(pinId)
    IN  IF gpio >= 0
        THEN sendResponse(
                 digitalWrite(o, gpio, IF value # 0 THEN HIGH ELSE LOW), 2)
        ELSE o

\* The case as written.
CaseDIGITAL(o, pinId, value) ==
    LET gpio == pinIdToGpio(pinId)
    IN  IF gpio >= 0
        THEN sendResponse(
                 digitalWrite(o, gpio, IF value # 0 THEN HIGH ELSE LOW), 2)
        ELSE sendResponse(o, 238)

\* case CMD_SERVO, lines 134-139.  duty is a uint32_t; map() of a byte lies
\* in 1638 .. 10922, which the conversion from long keeps.
\* Faulty variant: the acknowledgement of DIGITAL copied.
CaseSERVO_ackDigital(o, value) ==
    LET duty == map(value, 0, 180, 1638, 8192)
    IN  sendResponse(ledcWrite(o, PIN_SERVO1, duty), 2)

\* The case as written.
CaseSERVO(o, value) ==
    LET duty == map(value, 0, 180, 1638, 8192)
    IN  sendResponse(ledcWrite(o, PIN_SERVO1, duty), 3)

\* case CMD_NEOPIXEL, lines 142-154.
\* Faulty variant: a value outside the palette turns the pixel off before
\* the error response.
CaseNEOPIXEL_clearOnError(o, value) ==
    CASE value = 0 -> sendResponse(show(setPixelColor(o, 0, 0, 0)), 4)
      [] value = 1 -> sendResponse(show(setPixelColor(o, 255, 0, 0)), 4)
      [] value = 2 -> sendResponse(show(setPixelColor(o, 0, 255, 0)), 4)
      [] value = 3 -> sendResponse(show(setPixelColor(o, 0, 0, 255)), 4)
      [] value = 255 -> sendResponse(show(setPixelColor(o, 255, 255, 255)), 4)
      [] OTHER -> sendResponse(show(setPixelColor(o, 0, 0, 0)), 238)

\* Faulty variant: a colour that is already shown turns the pixel off.
CaseNEOPIXEL_toggle(o, value) ==
    LET c == CASE value = 0 -> <<0, 0, 0>>
               [] value = 1 -> <<255, 0, 0>>
               [] value = 2 -> <<0, 255, 0>>
               [] value = 3 -> <<0, 0, 255>>
               [] value = 255 -> <<255, 255, 255>>
               [] OTHER -> <<>>
    IN  IF c = <<>> THEN sendResponse(o, 238)
        ELSE IF o.hw.pixels = c
             THEN sendResponse(show(setPixelColor(o, 0, 0, 0)), 4)
             ELSE sendResponse(show(setPixelColor(o, c[1], c[2], c[3])), 4)

\* Faulty variant: red and green exchanged.
CaseNEOPIXEL_grb(o, value) ==
    CASE value = 0 -> sendResponse(show(setPixelColor(o, 0, 0, 0)), 4)
      [] value = 1 -> sendResponse(show(setPixelColor(o, 0, 255, 0)), 4)
      [] value = 2 -> sendResponse(show(setPixelColor(o, 255, 0, 0)), 4)
      [] value = 3 -> sendResponse(show(setPixelColor(o, 0, 0, 255)), 4)
      [] value = 255 -> sendResponse(show(setPixelColor(o, 255, 255, 255)), 4)
      [] OTHER -> sendResponse(o, 238)

\* The case as written.
CaseNEOPIXEL(o, value) ==
    CASE value = 0 -> sendResponse(show(setPixelColor(o, 0, 0, 0)), 4)
      [] value = 1 -> sendResponse(show(setPixelColor(o, 255, 0, 0)), 4)
      [] value = 2 -> sendResponse(show(setPixelColor(o, 0, 255, 0)), 4)
      [] value = 3 -> sendResponse(show(setPixelColor(o, 0, 0, 255)), 4)
      [] value = 255 -> sendResponse(show(setPixelColor(o, 255, 255, 255)), 4)
      [] OTHER -> sendResponse(o, 238)

\* case CMD_PING, lines 157-159.
\* Faulty variant: PING also clears the pixel.
CasePING_clearsPixel(o) == sendResponse(show(setPixelColor(o, 0, 0, 0)), 170)

\* The case as written.
CasePING(o) == sendResponse(o, 170)

\* case CMD_RESET, lines 162-166: the response, then delay(100) and
\* ESP.restart(), which does not return.
\* Faulty variant: the restart before the response.
CaseRESET_restartFirst(o) == [o EXCEPT !.restart = TRUE]

\* The case as written.
CaseRESET(o) == [sendResponse(o, 187) EXCEPT !.restart = TRUE]

\* default, lines 168-170.
CaseDefault(o) == sendResponse(o, 238)

processCommand(h, cmd, pinId, value) ==
    LET o == [hw |-> h, out |-> <<>>, restart |-> FALSE]
    IN  CASE cmd = CMD_PWM -> CasePWM(o, pinId, value)
          [] cmd = CMD_DIGITAL -> CaseDIGITAL(o, pinId, value)
          [] cmd = CMD_SERVO -> CaseSERVO(o, value)
          [] cmd = CMD_NEOPIXEL -> CaseNEOPIXEL(o, value)
          [] cmd = CMD_PING -> CasePING(o)
          [] cmd = CMD_RESET -> CaseRESET(o)
          [] OTHER -> CaseDefault(o)

---------------------------------------------------------------------------
(* Boot.                                                                   *)

\* The outputs at power-on: every register zero, the LED dark.
HwPowerOn ==
    [ledc |-> [p \in LedcPins |-> 0],
     gpio |-> [p \in OutPins |-> LOW],
     pixels |-> Black,
     led |-> Black]

\* The outputs after ESP.restart() (line 165): the chip and its RAM are
\* reset, the LED keeps the colour latched by the last show().
HwRestart(h) == [HwPowerOn EXCEPT !.led = h.led]

\* The outputs after setup(), lines 54-86: the direction pins are outputs,
\* the LEDC channels attached with duty 0, the pixel cleared and shown.
\* Faulty variant: the pixel is not cleared and shown.
SetupHw_noClear(h) ==
    [ledc |-> [p \in LedcPins |-> 0],
     gpio |-> [p \in OutPins |-> h.gpio[p]],
     pixels |-> h.pixels,
     led |-> h.led]

\* setup() as written.
SetupHw(h) ==
    [ledc |-> [p \in LedcPins |-> 0],
     gpio |-> [p \in OutPins |-> h.gpio[p]],
     pixels |-> Black,
     led |-> Black]

NoLast ==
    [valid |-> FALSE, cmd |-> 0, pinId |-> 0, value |-> 0,
     pre |-> HwPowerOn, out |-> <<>>]

Init ==
    /\ pc = "setup"
    /\ rxBuf = <<>>
    /\ cur = <<>>
    /\ hw = HwPowerOn
    /\ tx = <<>>
    /\ rxStream = <<>>
    /\ frames = <<>>
    /\ last = NoLast
    /\ txMark = 0
    /\ nRecv = 0
    /\ nFrames = 0
    /\ nBoots = 0
    /\ mpc = "setup"
    /\ console = <<>>
    /\ link = <<>>
    /\ mRead = 0
    /\ printed = <<>>
    /\ mLog = <<>>

---------------------------------------------------------------------------
(* Actions.                                                                *)

\* setup(), lines 54-90: configure the outputs, clear the pixel, write the
\* ready byte 0xAA.
setup ==
    /\ pc = "setup"
    /\ hw' = SetupHw(hw)
    /\ tx' = Append(tx, 170)
    /\ pc' = "loop"
    /\ nBoots' = nBoots + 1
    /\ UNCHANGED <<rxBuf, cur, rxStream, frames, last, txMark, nRecv, nFrames>>
    /\ UNCHANGED mvars

\* The UART receives one byte into the receive buffer while the sketch
\* runs (Serial.begin is the first statement of setup()).
SerialReceive(b) ==
    /\ pc # "setup"
    /\ rxBuf' = Append(rxBuf, b)
    /\ rxStream' = Append(rxStream, b)
    /\ nRecv' = nRecv + 1
    /\ UNCHANGED <<pc, cur, hw, tx, frames, last, txMark, nFrames, nBoots>>

\* A byte arrives from a sender that is not modelled.
Receive(b) ==
    /\ nRecv < MaxRecv
    /\ SerialReceive(b)
    /\ UNCHANGED mvars

\* One iteration of loop(), lines 93-97: with a frame buffered, read cmd,
\* pinId and value and enter processCommand; otherwise do nothing.
loop ==
    /\ pc = "loop"
    /\ IF FrameReady(rxBuf)
       THEN LET r1 == Serial_read(rxBuf)
                r2 == Serial_read(r1.buf)
                r3 == Serial_read(r2.buf)
                f == <<r1.byte, r2.byte, r3.byte>>
            IN  /\ cur' = f
                /\ rxBuf' = r3.buf
                /\ frames' = Append(frames, f)
                /\ pc' = "process"
                /\ UNCHANGED <<hw, tx, rxStream, last, txMark,
                               nRecv, nFrames, nBoots>>
                /\ UNCHANGED mvars
       ELSE UNCHANGED vars

\* The call of line 98: processCommand(cmd, pinId, value) runs to its end,
\* back to loop() or into the delay before the restart.
loop_processCommand ==
    /\ pc = "process"
    /\ LET o == processCommand(hw, cur[1], cur[2], cur[3])
       IN  /\ hw' = o.hw
           /\ tx' = tx \o o.out
           /\ pc' = IF o.restart THEN "delay" ELSE "loop"
           /\ last' = [valid |-> TRUE, cmd |-> cur[1], pinId |-> cur[2],
                       value |-> cur[3], pre |-> hw, out |-> o.out]
    /\ cur' = <<>>
    /\ nFrames' = nFrames + 1
    /\ UNCHANGED <<rxBuf, rxStream, frames, txMark, nRecv, nBoots>>
    /\ UNCHANGED mvars

\* ESP.restart(), line 165, at the end of delay(100): the chip resets, the
\* receive buffer and every variable of the sketch are lost, setup() runs
\* next.
restart ==
    /\ pc = "delay"
    /\ pc' = "setup"
    /\ hw' = HwRestart(hw)
    /\ rxBuf' = <<>>
    /\ cur' = <<>>
    /\ rxStream' = <<>>
    /\ frames' = <<>>
    /\ last' = NoLast
    /\ txMark' = Len(tx)
    /\ UNCHANGED <<tx, nRecv, nFrames, nBoots>>
    /\ UNCHANGED mvars

Next ==
    \/ setup
    \/ \E b \in ByteSample : Receive(b)
    \/ loop
    \/ loop_processCommand
    \/ restart

Spec == Init /\ [][Next]_vars

---------------------------------------------------------------------------
(* One frame, every target and value.  FrameSpec starts where the slave    *)
(* has booted, has processed the frames of a prelude and has the three     *)
(* bytes of one more frame in its receive buffer; no further byte arrives. *)

\* processCommand applied to the frames of fs in order, from outputs h.
RECURSIVE RunFrames(_, _)
RunFrames(o, fs) ==
    IF fs = <<>> THEN o
    ELSE LET r == processCommand(o.hw, fs[1][1], fs[1][2], fs[1][3])
         IN  RunFrames([hw |-> r.hw, out |-> o.out \o r.out,
                        restart |-> r.restart], Tail(fs))

RECURSIVE Flatten(_)
Flatten(fs) == IF fs = <<>> THEN <<>> ELSE fs[1] \o Flatten(Tail(fs))

FrameInit ==
    \E pre \in Preludes, f \in FrameDomain :
        LET c == f[1]
            p == f[2]
            v == f[3]
            boot == [hw |-> SetupHw(HwPowerOn), out |-> <<170>>,
                     restart |-> FALSE]
            r == RunFrames(boot, pre)
            n == Len(pre)
            before == RunFrames(boot, SubSeq(pre, 1, n - 1))
        IN  /\ pc = "loop"
            /\ rxBuf = <<c, p, v>>
            /\ cur = <<>>
            /\ hw = r.hw
            /\ tx = r.out
            /\ rxStream = Flatten(pre) \o <<c, p, v>>
            /\ frames = pre
            /\ last = IF n = 0 THEN NoLast
                      ELSE [valid |-> TRUE, cmd |-> pre[n][1],
                            pinId |-> pre[n][2], value |-> pre[n][3],
                            pre |-> before.hw,
                            out |-> SubSeq(r.out, Len(before.out) + 1,
                                           Len(r.out))]
            /\ txMark = 0
            /\ nRecv = 3 * n + 3
            /\ nFrames = n
            /\ nBoots = 1
            /\ mpc = "setup"
            /\ console = <<>>
            /\ link = <<>>
            /\ mRead = 0
            /\ printed = <<>>
            /\ mLog = <<>>

FrameNext ==
    \/ setup
    \/ loop
    \/ loop_processCommand
    \/ restart

FrameSpec == FrameInit /\ [][FrameNext]_vars

---------------------------------------------------------------------------
(* The master sketch, lines 194-315.  A String is the sequence of its      *)
(* characters; the String functions take and return C's indices, which     *)
(* count from 0.                                                           *)

\* isspace() for the characters a line can hold.
isspace(c) == c \in {" ", "\t", "\r", "\f"}

\* String::trim(), line 235: leading and trailing white space removed.
RECURSIVE trim(_)
trim(str) ==
    IF str = <<>> THEN <<>>
    ELSE IF isspace(str[1]) THEN trim(Tail(str))
    ELSE IF isspace(str[Len(str)]) THEN trim(SubSeq(str, 1, Len(str) - 1))
    ELSE str

\* String::startsWith(prefix), lines 249-269.
startsWith(str, prefix) ==
    Len(prefix) <= Len(str) /\ SubSeq(str, 1, Len(prefix)) = prefix

\* An int index passed for an unsigned int parameter: a negative index
\* becomes a value above every String length (-1 becomes 4294967295, for
\* which the largest integer of the model stands).
AsUnsigned(i) == IF i < 0 THEN 2147483647 ELSE i

\* String::substring(left, right), lines 251 and 271: the characters at
\* left .. right - 1, the indices exchanged when left > right, right cut to
\* the length, empty when left is at or past the end.
substring(str, left, right) ==
    LET l == IF left > right THEN right ELSE left
        r == IF left > right THEN left ELSE right
    IN  IF l >= Len(str) THEN <<>>
        ELSE SubSeq(str, l + 1, IF r > Len(str) THEN Len(str) ELSE r)

\* String::substring(left), lines 252, 257, 262, 272: up to the end.
substringFrom(str, left) == substring(str, left, Len(str))

\* String::indexOf(ch, fromIndex), lines 251 and 271: the first index at
\* or after fromIndex that holds ch, -1 when there is none.
indexOf(str, ch, fromIndex) ==
    LET hits == {i \in fromIndex .. Len(str) - 1 : str[i + 1] = ch}
    IN  IF fromIndex >= Len(str) \/ hits = {} THEN -1
        ELSE CHOOSE i \in hits : \A j \in hits : i <= j

\* String::lastIndexOf(ch), lines 252 and 272: the last index that holds
\* ch, -1 when there is none.
lastIndexOf(str, ch) ==
    LET hits == {i \in 0 .. Len(str) - 1 : str[i + 1] = ch}
    IN  IF hits = {} THEN -1
        ELSE CHOOSE i \in hits : \A j \in hits : i >= j

isdigit(c) == c \in {"0", "1", "2", "3", "4", "5", "6", "7", "8", "9"}

DigitValue(c) ==
    CASE c = "0" -> 0 [] c = "1" -> 1 [] c = "2" -> 2 [] c = "3" -> 3
      [] c = "4" -> 4 [] c = "5" -> 5 [] c = "6" -> 6 [] c = "7" -> 7
      [] c = "8" -> 8 [] c = "9" -> 9

\* The digits of strtol(): the value of the leading digits of str added to
\* acc, kept in the range of a 32-bit long: LONG_MAX or LONG_MIN when the
\* digits say more.  acc and the result are negative when neg.
RECURSIVE strtolDigits(_, _, _)
strtolDigits(str, acc, neg) ==
    IF str = <<>> \/ ~isdigit(str[1]) THEN acc
    ELSE LET d == DigitValue(str[1])
         IN  IF neg
             THEN IF acc < -214748364 \/ (acc = -214748364 /\ d > 8)
                  THEN -2147483647 - 1
                  ELSE strtolDigits(Tail(str), acc * 10 - d, neg)
             ELSE IF acc > 214748364 \/ (acc = 214748364 /\ d > 7)
                  THEN 2147483647
                  ELSE strtolDigits(Tail(str), acc * 10 + d, neg)

\* String::toInt(), lines 251-272: atol() of the characters, which is
\* strtol(): white space skipped, an optional sign, then the leading
\* digits; 0 when there are none.
RECURSIVE toInt(_)
toInt(str) ==
    IF str = <<>> THEN 0
    ELSE IF isspace(str[1]) THEN toInt(Tail(str))
    ELSE IF str[1] = "-" THEN strtolDigits(Tail(str), 0, TRUE)
    ELSE IF str[1] = "+" THEN strtolDigits(Tail(str), 0, FALSE)
    ELSE strtolDigits(str, 0, FALSE)

\* The command words of lines 237-269.
S_ping == <<"p", "i", "n", "g">>
S_reset == <<"r", "e", "s", "e", "t">>
S_status == <<"s", "t", "a", "t", "u", "s">>
S_pwm == <<"p", "w", "m", " ">>
S_servo == <<"s", "e", "r", "v", "o", " ">>
S_neo == <<"n", "e", "o", " ">>
S_digital == <<"d", "i", "g", "i", "t", "a", "l", " ">>
S_ff == <<"f", "f">>

\* sendCommand, lines 312-315: the three arguments, converted to uint8_t,
\* in one buffer.
\* Faulty variant: the arguments limited to 0 .. 255 instead of truncated.
sendCommand_clamped(cmd, pinId, value) ==
    LET clamp(x) == IF x > 255 THEN 255 ELSE IF x < 0 THEN 0 ELSE x
    IN  <<clamp(cmd), clamp(pinId), clamp(value)>>

\* sendCommand as written.
sendCommand(cmd, pinId, value) == <<U8(cmd), U8(pinId), U8(value)>>

\* What the master does for one line: c.writes, the buffers it wrote to
\* Serial2 with one Serial2.write each, and c.prints, the lines it printed.
Printed(kind, a, b) == [kind |-> kind, a |-> a, b |-> b]

\* Lines 237-240.
CmdPing ==
    [writes |-> <<sendCommand(CMD_PING, 0, 0)>>,
     prints |-> <<Printed("PING", 0, 0)>>]

\* Lines 241-244.
CmdReset ==
    [writes |-> <<sendCommand(CMD_RESET, 0, 0)>>,
     prints |-> <<Printed("RESET", 0, 0)>>]

\* Lines 245-248.
\* Faulty variant: status also pings the slave.
CmdStatus_pings ==
    [writes |-> <<sendCommand(CMD_PING, 0, 0)>>,
     prints |-> <<Printed("Estado", 0, 0)>>]

\* The branch as written.
CmdStatus == [writes |-> <<>>, prints |-> <<Printed("Estado", 0, 0)>>]

\* Lines 249-255.
CmdPwm(cmd) ==
    LET motor == toInt(substring(cmd, 4, AsUnsigned(indexOf(cmd, " ", 5))))
        value == toInt(substringFrom(cmd, lastIndexOf(cmd, " ") + 1))
    IN  [writes |-> <<sendCommand(CMD_PWM, motor, value)>>,
         prints |-> <<Printed("PWM", motor, value)>>]

\* Lines 256-260.
CmdServo(cmd) ==
    LET angle == toInt(substringFrom(cmd, 6))
    IN  [writes |-> <<sendCommand(CMD_SERVO, 0, angle)>>,
         prints |-> <<Printed("Servo", angle, 0)>>]

\* Lines 261-268.
\* Faulty variant: every colour read as a decimal number.
CmdNeo_decimalOnly(cmd) ==
    LET val == toInt(substringFrom(cmd, 4))
    IN  [writes |-> <<sendCommand(CMD_NEOPIXEL, 0, val)>>,
         prints |-> <<Printed("NeoPixel", val, 0)>>]

\* The branch as written.
CmdNeo(cmd) ==
    LET color == substringFrom(cmd, 4)
        val == IF color = S_ff THEN 255 ELSE toInt(color)
    IN  [writes |-> <<sendCommand(CMD_NEOPIXEL, 0, val)>>,
         prints |-> <<Printed("NeoPixel", val, 0)>>]

\* Lines 274-283: the pin id typed in decimal, as the tag it names.
\* Faulty variant: every id read as two hexadecimal digits.
pinHexOf_allHex(pinId) == ((pinId \div 10) * 16) + (pinId % 10)

\* The table as written.
pinHexOf(pinId) ==
    CASE pinId = 11 -> 17
      [] pinId = 12 -> 18
      [] pinId = 21 -> 33
      [] pinId = 22 -> 34
      [] pinId = 31 -> 49
      [] pinId = 32 -> 50
      [] pinId = 41 -> 65
      [] pinId = 42 -> 66
      [] OTHER -> pinId

\* Lines 269-287.
CmdDigital(cmd) ==
    LET pinId == toInt(substring(cmd, 8, AsUnsigned(indexOf(cmd, " ", 9))))
        val == toInt(substringFrom(cmd, lastIndexOf(cmd, " ") + 1))
        pinHex == pinHexOf(pinId)
    IN  [writes |-> <<sendCommand(CMD_DIGITAL, pinHex, val)>>,
         prints |-> <<Printed("Digital", pinHex, val)>>]

\* Lines 288-290: a message for a line that is not empty, nothing for an
\* empty one.
CmdOther(cmd) ==
    IF Len(cmd) > 0
    THEN [writes |-> <<>>, prints |-> <<Printed("no reconocido", 0, 0)>>]
    ELSE [writes |-> <<>>, prints |-> <<>>]

\* Lines 234-291, for the line raw that readStringUntil returned.
MasterCommand(raw) ==
    LET cmd == trim(raw)
    IN  IF cmd = S_ping THEN CmdPing
        ELSE IF cmd = S_reset THEN CmdReset
        ELSE IF cmd = S_status THEN CmdStatus
        ELSE IF startsWith(cmd, S_pwm) THEN CmdPwm(cmd)
        ELSE IF startsWith(cmd, S_servo) THEN CmdServo(cmd)
        ELSE IF startsWith(cmd, S_neo) THEN CmdNeo(cmd)
        ELSE IF startsWith(cmd, S_digital) THEN CmdDigital(cmd)
        ELSE CmdOther(cmd)

\* Lines 294-309, for the bytes buf waiting in Serial2: r.n, how many it
\* read, and r.prints, the lines it printed.
\* Faulty variant: the buffer drained, the last byte printed.
MasterRelay_drain(buf) ==
    IF Len(buf) > 0
    THEN [n |-> Len(buf),
          prints |-> <<Printed("Slave resp", buf[Len(buf)], 0)>>]
    ELSE [n |-> 0, prints |-> <<>>]

\* The relay as written.
MasterRelay(buf) ==
    IF Len(buf) > 0
    THEN [n |-> 1, prints |-> <<Printed("Slave resp", buf[1], 0)>>]
    ELSE [n |-> 0, prints |-> <<>>]

\* The bytes waiting in the master's Serial2.
Serial2Buffer == SubSeq(tx, mRead + 1, Len(tx))

\* setup() of the master, lines 211-229: what the slave wrote before
\* Serial2.begin is not received.  The banner is not modelled.
master_setup ==
    /\ mpc = "setup"
    /\ mpc' = "loop"
    /\ mRead' = Len(tx)
    /\ UNCHANGED <<console, link, printed, mLog>>
    /\ UNCHANGED <<pc, rxBuf, cur, hw, tx, rxStream, frames, last, txMark,
                   nRecv, nFrames, nBoots>>

\* One iteration of the master's loop(), lines 231-310: the oldest line of
\* the console, if there is one, is read and obeyed; then one byte of
\* Serial2, if there is one, is read and printed.
master_loop ==
    /\ mpc = "loop"
    /\ LET c == IF console # <<>> THEN MasterCommand(Head(console))
                ELSE [writes |-> <<>>, prints |-> <<>>]
           r == MasterRelay(Serial2Buffer)
       IN  /\ console' = IF console # <<>> THEN Tail(console) ELSE console
           /\ mLog' = IF console # <<>>
                      THEN Append(mLog, [line |-> Head(console),
                                         writes |-> c.writes])
                      ELSE mLog
           /\ link' = link \o Flatten(c.writes)
           /\ mRead' = mRead + r.n
           /\ printed' = printed \o c.prints \o r.prints
    /\ UNCHANGED mpc
    /\ UNCHANGED <<pc, rxBuf, cur, hw, tx, rxStream, frames, last, txMark,
                   nRecv, nFrames, nBoots>>

\* The operator enters a line; it is what one readStringUntil('\n') of the
\* master returns.
Type(line, max) ==
    /\ mpc = "loop"
    /\ Len(mLog) + Len(console) < max
    /\ console' = Append(console, line)
    /\ UNCHANGED <<mpc, link, mRead, printed, mLog>>
    /\ UNCHANGED <<pc, rxBuf, cur, hw, tx, rxStream, frames, last, txMark,
                   nRecv, nFrames, nBoots>>

---------------------------------------------------------------------------
(* The encoder alone.  In EncSpec the operator enters up to MaxLines lines *)
(* of EncLines and the master obeys them; the slave does not run.          *)

\* Lines entered in EncSpec.
MaxLines == 2

\* The decimal digits of n >= 0.
RECURSIVE Dec(_)
Dec(n) ==
    LET d == <<"0", "1", "2", "3", "4", "5", "6", "7", "8", "9">>[(n % 10) + 1]
    IN  IF n < 10 THEN <<d>> ELSE Append(Dec(n \div 10), d)

\* 2147483648 and 4294967296, which no integer of the model holds.
Digits2p31 == <<"2", "1", "4", "7", "4", "8", "3", "6", "4", "8">>
Digits2p32 == <<"4", "2", "9", "4", "9", "6", "7", "2", "9", "6">>

\* What the operator means by a line: a command kind with arguments a and
\* b written in decimal (<<>> when the kind has none), and the text typed.
Line(kind, a, b, text) == [kind |-> kind, a |-> a, b |-> b, text |-> text]

PwmLines ==
    {Line("pwm", m, v, S_pwm \o m \o <<" ">> \o v) :
        m \in {Dec(1), Dec(4), Dec(5), Dec(257)},
        v \in {Dec(0), Dec(128), Dec(300), Digits2p32}}

ServoLines ==
    {Line("servo", <<>>, v, S_servo \o v) :
        v \in {Dec(0), Dec(180), Dec(181), Dec(255), Dec(2147483647),
              Digits2p31}}

NeoLines ==
    {Line("neo", <<>>, c, S_neo \o c) :
        c \in {Dec(0), Dec(1), Dec(2), Dec(3), Dec(4), Dec(256), S_ff}}

DigitalLines ==
    {Line("digital", p, Dec(1), S_digital \o p \o <<" ">> \o Dec(1)) :
        p \in {Dec(11), Dec(12), Dec(21), Dec(22), Dec(31), Dec(32),
               Dec(41), Dec(42), Dec(17), Dec(267)}}
    \cup {Line("digital", p, Dec(0), S_digital \o p \o <<" ">> \o Dec(0)) :
              p \in {Dec(21), Dec(17)}}

\* ping, reset and status, bare and with white space around them.
WordLines ==
    {Line("ping", <<>>, <<>>, S_ping),
     Line("ping", <<>>, <<>>, <<" ">> \o S_ping \o <<"\r">>),
     Line("reset", <<>>, <<>>, S_reset),
     Line("reset", <<>>, <<>>, S_reset \o <<"\r">>),
     Line("status", <<>>, <<>>, S_status),
     Line("status", <<>>, <<>>, S_status \o <<" ">>)}

\* Lines that are no command: empty, blank, a command word in capitals, a
\* command word without its arguments, other text.
OtherLines ==
    {Line("other", <<>>, <<>>, <<>>),
     Line("other", <<>>, <<>>, <<" ", "\r">>),
     Line("other", <<>>, <<>>, <<"P", "I", "N", "G">>),
     Line("other", <<>>, <<>>, S_servo),
     Line("other", <<>>, <<>>, S_ping \o <<" ", "1">>)}

\* Commands with a missing or malformed argument.
MalformedLines ==
    {Line("malformed", <<>>, <<>>, S_pwm \o <<"5">>),
     Line("malformed", <<>>, <<>>, S_neo \o <<"F", "F">>),
     Line("malformed", <<>>, <<>>, S_digital \o <<"2", "1">>),
     Line("malformed", <<>>, <<>>, S_pwm \o <<"1", " ", "-", "1">>)}

EncLines ==
    PwmLines \cup ServoLines \cup NeoLines \cup DigitalLines
        \cup WordLines \cup OtherLines \cup MalformedLines

EncNext ==
    \/ master_setup
    \/ \E l \in EncLines : Type(l.text, MaxLines)
    \/ master_loop

EncSpec == Init /\ [][EncNext]_vars

---------------------------------------------------------------------------
(* The two boards on the link.  In LinkSpec the operator enters up to      *)
(* MaxLines lines of LinkLines, the master obeys them, the bytes it wrote  *)
(* travel to the slave one at a time, and the slave runs.                  *)

\* The oldest byte on the link reaches the slave: it enters the receive
\* buffer, or is lost when the slave is restarting and has not opened its
\* Serial yet.
Deliver ==
    /\ link # <<>>
    /\ link' = Tail(link)
    /\ IF pc = "setup"
       THEN UNCHANGED <<pc, rxBuf, cur, hw, tx, rxStream, frames, last,
                        txMark, nRecv, nFrames, nBoots>>
       ELSE SerialReceive(Head(link))
    /\ UNCHANGED <<mpc, console, mRead, printed, mLog>>

LinkLines ==
    {l \in EncLines :
        \/ l.text \in {S_ping, S_reset, S_status, S_neo \o S_ff}
        \/ l.text = S_pwm \o Dec(4) \o <<" ">> \o Dec(128)
        \/ l.text = S_pwm \o Dec(5) \o <<" ">> \o Dec(0)
        \/ l.text = S_servo \o Dec(180)
        \/ l.text = S_digital \o Dec(21) \o <<" ">> \o Dec(1)}

LinkNext ==
    \/ master_setup
    \/ \E l \in LinkLines : Type(l.text, MaxLines)
    \/ master_loop
    \/ Deliver
    \/ setup
    \/ loop
    \/ loop_processCommand
    \/ restart

LinkSpec == Init /\ [][LinkNext]_vars

---------------------------------------------------------------------------
(* The relay of the responses.  RelaySpec is the two boards on the link    *)
(* with the lines of RelayLines; the master's setup() runs, and its loop() *)
(* is called again and again, as the Arduino runtime does.                 *)

RelayLines == {l \in EncLines : l.text \in {S_ping, S_reset, S_status}}

RelayNext ==
    \/ master_setup
    \/ \E l \in RelayLines : Type(l.text, MaxLines)
    \/ master_loop
    \/ Deliver
    \/ setup
    \/ loop
    \/ loop_processCommand
    \/ restart

RelaySpec ==
    Init /\ [][RelayNext]_vars /\ WF_vars(master_setup) /\ WF_vars(master_loop)

---------------------------------------------------------------------------
(* Properties of the framing, checked under Spec.                          *)

\* The bytes this boot has written to Serial.
TxBoot == SubSeq(tx, txMark + 1, Len(tx))

\* s is an initial part of t.
IsPrefix(s, t) == Len(s) <= Len(t) /\ SubSeq(t, 1, Len(s)) = s

\* C1.  Framing.  A step of the running dispatcher takes bytes out of the
\* receive buffer only in loop() with at least 3 bytes buffered, and then
\* exactly the 3 oldest, in arrival order, as cmd, pinId and value; with
\* fewer than 3 bytes buffered no step writes a response, changes an output
\* or reads a frame, and the buffered bytes stay.  So the k-th frame read
\* since boot is bytes 3k-2, 3k-1, 3k (counted from 1) of the bytes
\* received since boot, and the buffer holds the bytes after them.
C1_Step ==
    pc # "delay" =>
        /\ \/ IsPrefix(rxBuf, rxBuf')
           \/ /\ pc = "loop"
              /\ Len(rxBuf) >= 3
              /\ rxBuf' = SubSeq(rxBuf, 4, Len(rxBuf))
              /\ cur' = SubSeq(rxBuf, 1, 3)
              /\ frames' = Append(frames, SubSeq(rxBuf, 1, 3))
        /\ (pc = "loop" /\ Len(rxBuf) < 3) =>
               /\ tx' = tx
               /\ hw' = hw
               /\ frames' = frames
               /\ nFrames' = nFrames
               /\ pc' = "loop"

C1_Stream ==
    /\ 3 * Len(frames) <= Len(rxStream)
    /\ \A k \in 1 .. Len(frames) :
           frames[k] = SubSeq(rxStream, 3 * k - 2, 3 * k)
    /\ rxBuf = SubSeq(rxStream, 3 * Len(frames) + 1, Len(rxStream))

C1_Framing == [][C1_Step]_vars /\ [](pc # "setup" => C1_Stream)

\* C1 witness: one frame has been processed and two bytes of the next wait
\* in the buffer of the idle loop.
C1_Witness ==
    /\ pc = "loop"
    /\ last.valid
    /\ Len(frames) = 1
    /\ Len(rxBuf) = 2
    /\ Len(rxStream) = 5

\* C2.  One response per frame.  The step that processes a frame, whatever
\* the frame, appends exactly one byte to the bytes written; no other step
\* of the running dispatcher writes; so the bytes written since power-on
\* number the frames processed plus the boots completed.
C2_Step ==
    /\ nFrames' = nFrames + 1 => Len(tx') = Len(tx) + 1 /\ IsPrefix(tx, tx')
    /\ (nFrames' = nFrames /\ pc # "setup") => tx' = tx
    /\ nFrames' \in {nFrames, nFrames + 1}

C2_OneResponsePerFrame ==
    [][C2_Step]_vars /\ [](Len(tx) = nFrames + nBoots)

\* C2 witness: a RESET frame and, after the reboot, another frame have been
\* processed.
C2_Witness ==
    /\ nFrames = 2
    /\ nBoots = 2
    /\ Len(tx) = 4
    /\ tx[2] = 187

\* C3.  One command at a time, in arrival order.  A frame is read only when
\* every frame read before it in this boot has its response written; while
\* a frame is processed it is the only one without a response; and the
\* bytes written in this boot are the startup byte followed by the
\* responses of the frames read, in the order they were read.
C3_ResponsesOf(fs) ==
    RunFrames([hw |-> HwPowerOn, out |-> <<>>, restart |-> FALSE], fs).out

C3_Counts ==
    /\ pc = "loop" => Len(TxBoot) = 1 + Len(frames)
    /\ pc = "process" => Len(TxBoot) = Len(frames)
    /\ pc = "delay" => Len(TxBoot) = 1 + Len(frames)

C3_Order ==
    pc \in {"loop", "delay"} => TxBoot = <<170>> \o C3_ResponsesOf(frames)

C3_Step == frames' # frames /\ pc # "delay" => Len(TxBoot) = 1 + Len(frames)

C3_InOrder == [][C3_Step]_vars /\ [](C3_Counts /\ C3_Order)

\* C3 witness: two frames with different responses have been read and
\* answered in this boot.
C3_Witness ==
    /\ pc = "loop"
    /\ Len(frames) = 2
    /\ Len(TxBoot) = 3
    /\ TxBoot[2] # TxBoot[3]

\* C4.  RESET.  Processing a frame with opcode 0xFF writes RESET_OK (0xBB)
\* and enters the delay before the restart, whatever pinId and value; from
\* there the restart is the dispatcher's only step: until it no frame is
\* read or processed, nothing is written and no output changes.
C4_Step ==
    /\ (pc = "process" /\ cur[1] = CMD_RESET /\ pc' # pc) =>
           /\ pc' = "delay"
           /\ tx' = Append(tx, 187)
    /\ pc = "delay" =>
           \/ /\ pc' = "delay"
              /\ tx' = tx
              /\ hw' = hw
              /\ frames' = frames
              /\ nFrames' = nFrames
           \/ /\ pc' = "setup"
              /\ tx' = tx
              /\ frames' = <<>>
              /\ nFrames' = nFrames

C4_State ==
    /\ (last.valid /\ last.cmd = CMD_RESET) =>
           pc = "delay" /\ last.out = <<187>>
    /\ pc = "delay" =>
           /\ last.valid
           /\ last.cmd = CMD_RESET
           /\ tx[Len(tx)] = 187
           /\ ENABLED restart

C4_Reset == [][C4_Step]_vars /\ []C4_State

\* C4 witness: the slave has restarted after a RESET frame; two bytes that
\* arrived after the frame were never read.
C4_Witness ==
    /\ pc = "setup"
    /\ nBoots = 1
    /\ tx = <<170, 187>>
    /\ nFrames = 1
    /\ nRecv = 5

---------------------------------------------------------------------------
(* Properties of the commands, checked under FrameSpec.  Whenever          *)
(* last.valid holds, hw is the outputs right after the frame of last, and  *)
(* last.pre the outputs right before it.                                   *)

\* n / d rounded to the nearest integer, halves up (n >= 0, d > 0).
Round(n, d) == (2 * n + d) \div (2 * d)

\* The PWM pin of motor t, lines 13-22.
MotorPin(t) ==
    CASE t = 1 -> PIN_M1_PWM
      [] t = 2 -> PIN_M2_PWM
      [] t = 3 -> PIN_M3_PWM
      [] t = 4 -> PIN_M4_PWM

\* C5 as claimed.  PWM duty, rounded: a frame with opcode 0x01, target t in
\* 1 .. 4 and value v writes round(v * 1023 / 255), a duty in 0 .. 1023, to
\* the PWM output of motor t and to no other output, and is answered PWM_OK
\* (0x01); v = 128 gives 514.
C5_RoundedDuty ==
    (last.valid /\ last.cmd = CMD_PWM /\ last.pinId \in 1 .. 4) =>
        /\ hw = [last.pre EXCEPT !.ledc[MotorPin(last.pinId)] =
                                     Round(last.value * 1023, 255)]
        /\ hw.ledc[MotorPin(last.pinId)] \in 0 .. 1023
        /\ last.value = 128 => hw.ledc[MotorPin(last.pinId)] = 514
        /\ last.out = <<1>>

\* C5 as amended.  PWM duty, truncated: a frame with opcode 0x01, target t
\* in 1 .. 4 and value v writes floor(v * 1023 / 255), a duty in 0 .. 1023,
\* to the PWM output of motor t and to no other output, and is answered
\* PWM_OK (0x01); v = 128 gives 513.
C5_TruncatedDuty ==
    (last.valid /\ last.cmd = CMD_PWM /\ last.pinId \in 1 .. 4) =>
        /\ hw = [last.pre EXCEPT !.ledc[MotorPin(last.pinId)] =
                                     (last.value * 1023) \div 255]
        /\ hw.ledc[MotorPin(last.pinId)] \in 0 .. 1023
        /\ last.value = 128 => hw.ledc[MotorPin(last.pinId)] = 513
        /\ last.out = <<1>>

\* C5 witness: after the prelude left motor 2 at duty 513, PWM 3 128 has
\* set motor 3 to 513 too.
C5_Witness ==
    /\ last.valid
    /\ last.cmd = CMD_PWM
    /\ last.pinId = 3
    /\ last.value = 128
    /\ last.pre.ledc[PIN_M3_PWM] = 0
    /\ hw.ledc[PIN_M3_PWM] = 513
    /\ hw.ledc[PIN_M2_PWM] = 513

\* C6.  PWM, invalid target: a frame with opcode 0x01 and a target outside
\* 1 .. 4 is answered ERROR (0xEE) and nothing else, never PWM_OK, and no
\* LEDC duty is written: the four motor duties, and every other output,
\* are as before the frame.
C6_PwmInvalidTarget ==
    (last.valid /\ last.cmd = CMD_PWM /\ last.pinId \notin 1 .. 4) =>
        /\ last.out = <<238>>
        /\ \A i \in 1 .. Len(last.out) : last.out[i] # 1
        /\ \A t \in 1 .. 4 : hw.ledc[MotorPin(t)] = last.pre.ledc[MotorPin(t)]
        /\ hw = last.pre

\* C6 witness: the frame [0x01, 0x09, 0x10] has been answered ERROR with
\* motor 2 still at the duty the prelude gave it.
C6_Witness ==
    /\ last.valid
    /\ last.cmd = CMD_PWM
    /\ last.pinId = 9
    /\ last.value = 16
    /\ last.out = <<238>>
    /\ hw.ledc[PIN_M2_PWM] = 513

\* The eight DIGITAL tags and the pin of each, lines 14-24 and 178-185.
C7_Tags == {17, 18, 33, 34, 49, 50, 65, 66}

C7_PinOfTag(t) ==
    CASE t = 17 -> 5
      [] t = 18 -> 18
      [] t = 33 -> 27
      [] t = 34 -> 14
      [] t = 49 -> 32
      [] t = 50 -> 33
      [] t = 65 -> 25
      [] t = 66 -> 26

\* C7.  DIGITAL: a frame with opcode 0x02 and one of the 8 tags as target
\* drives the pin of that tag HIGH when value # 0 and LOW when value = 0,
\* changes no other pin or output, and is answered DIGITAL_OK (0x02); with
\* any other target it is answered ERROR (0xEE) and changes nothing.
C7_Digital ==
    (last.valid /\ last.cmd = CMD_DIGITAL) =>
        IF last.pinId \in C7_Tags
        THEN /\ hw = [last.pre EXCEPT !.gpio[C7_PinOfTag(last.pinId)] =
                                         IF last.value # 0 THEN 1 ELSE 0]
             /\ last.out = <<2>>
        ELSE /\ hw = last.pre
             /\ last.out = <<238>>

\* C7 witness: DIGITAL 0x21 0 has lowered the pin the prelude had raised,
\* and left the others low.
C7_Witness ==
    /\ last.valid
    /\ last.cmd = CMD_DIGITAL
    /\ last.pinId = 33
    /\ last.value = 0
    /\ last.pre.gpio[27] = 1
    /\ hw.gpio[27] = 0
    /\ last.out = <<2>>

\* C8 as claimed.  SERVO, rounded: a frame with opcode 0x03 writes a servo
\* duty, changes no other output and is answered SERVO_OK (0x03), whatever
\* target and value; for a value v in 0 .. 180 the duty written is
\* round(1638 + v * (8192 - 1638) / 180), in 1638 .. 8192.
C8_RoundedServo ==
    (last.valid /\ last.cmd = CMD_SERVO) =>
        /\ hw = [last.pre EXCEPT !.ledc[PIN_SERVO1] = hw.ledc[PIN_SERVO1]]
        /\ last.out = <<3>>
        /\ last.value \in 0 .. 180 =>
               /\ hw.ledc[PIN_SERVO1] =
                      Round(1638 * 180 + last.value * (8192 - 1638), 180)
               /\ hw.ledc[PIN_SERVO1] \in 1638 .. 8192

\* C8 as amended.  SERVO, truncated: a frame with opcode 0x03 writes a
\* servo duty, changes no other output and is answered SERVO_OK (0x03),
\* whatever target and value; for a value v in 0 .. 180 the duty written is
\* 1638 + floor(v * (8192 - 1638) / 180), in 1638 .. 8192.
C8_TruncatedServo ==
    (last.valid /\ last.cmd = CMD_SERVO) =>
        /\ hw = [last.pre EXCEPT !.ledc[PIN_SERVO1] = hw.ledc[PIN_SERVO1]]
        /\ last.out = <<3>>
        /\ last.value \in 0 .. 180 =>
               /\ hw.ledc[PIN_SERVO1] =
                      1638 + (last.value * (8192 - 1638)) \div 180
               /\ hw.ledc[PIN_SERVO1] \in 1638 .. 8192

\* C8 witness: SERVO 2 has moved the servo duty from the prelude's 4915
\* (90 degrees) to 1710.
C8_Witness ==
    /\ last.valid
    /\ last.cmd = CMD_SERVO
    /\ last.value = 2
    /\ last.pre.ledc[PIN_SERVO1] = 4915
    /\ hw.ledc[PIN_SERVO1] = 1710
    /\ last.out = <<3>>

\* The palette of the indicator.
C9_Palette == {0, 1, 2, 3, 255}

C9_Colour(v) ==
    CASE v = 0 -> <<0, 0, 0>>
      [] v = 1 -> <<255, 0, 0>>
      [] v = 2 -> <<0, 255, 0>>
      [] v = 3 -> <<0, 0, 255>>
      [] v = 255 -> <<255, 255, 255>>

\* C9.  NEOPIXEL: a frame with opcode 0x04 and a palette value (0, 1, 2, 3,
\* 0xFF) makes the pixel black, red, green, blue or white respectively,
\* shows it on the LED and is answered NEOPIXEL_OK (0x04); with any other
\* value it is answered ERROR (0xEE) and the pixel and the LED keep their
\* colour.  No other output changes either way.
C9_Neopixel ==
    (last.valid /\ last.cmd = CMD_NEOPIXEL) =>
        IF last.value \in C9_Palette
        THEN /\ hw = [last.pre EXCEPT !.pixels = C9_Colour(last.value),
                                      !.led = C9_Colour(last.value)]
             /\ last.out = <<4>>
        ELSE /\ hw = last.pre
             /\ last.out = <<238>>

\* C9 witness: NEOPIXEL 2 has turned the LED from the prelude's red to
\* green.
C9_Witness ==
    /\ last.valid
    /\ last.cmd = CMD_NEOPIXEL
    /\ last.value = 2
    /\ last.pre.led = <<255, 0, 0>>
    /\ hw.led = <<0, 255, 0>>
    /\ last.out = <<4>>

\* C10.  PING: a frame with opcode 0xF0 is answered READY (0xAA) and leaves
\* every output (LEDC duties, pins, pixel, LED) as it was, whatever its
\* target and value bytes.
C10_Ping ==
    (last.valid /\ last.cmd = CMD_PING) =>
        /\ last.out = <<170>>
        /\ hw = last.pre

\* C10 witness: PING with target 0x5A and value 0xC3 has been answered with
\* the LED red, motor 2 running and the servo turned.
C10_Witness ==
    /\ last.valid
    /\ last.cmd = CMD_PING
    /\ last.pinId = 90
    /\ last.value = 195
    /\ last.out = <<170>>
    /\ hw.led = <<255, 0, 0>>
    /\ hw.ledc[PIN_M2_PWM] = 513
    /\ hw.ledc[PIN_SERVO1] = 4915

---------------------------------------------------------------------------
(* Properties of sequences of frames.                                      *)

\* The frames of this boot that processCommand has finished.
Processed == IF pc = "process" THEN SubSeq(frames, 1, Len(frames) - 1)
             ELSE frames

\* The outcome of setup() followed by the frames fs.
AfterBoot(fs) ==
    RunFrames([hw |-> SetupHw(HwPowerOn), out |-> <<170>>,
               restart |-> FALSE], fs)

\* The six opcodes.
C11_Opcodes == {1, 2, 3, 4, 240, 255}

\* A frame the protocol rejects: unknown opcode, PWM or DIGITAL with an
\* invalid target, NEOPIXEL with a value outside the palette.
C11_Rejected(f) ==
    \/ f[1] \notin C11_Opcodes
    \/ f[1] = 1 /\ f[2] \notin 1 .. 4
    \/ f[1] = 2 /\ f[2] \notin C7_Tags
    \/ f[1] = 4 /\ f[3] \notin C9_Palette

C11_Accepted(f) == ~C11_Rejected(f)

\* C11.  Protocol errors are recoverable and free of side effects: a frame
\* with an opcode outside {0x01, 0x02, 0x03, 0x04, 0xF0, 0xFF} is answered
\* ERROR (0xEE); a frame is answered ERROR exactly when the protocol
\* rejects it, and then every output is as before the frame and the
\* dispatcher does not restart; and the frames after it are processed as
\* if it had not been sent: the outputs are those the accepted frames of
\* this boot alone produce.
C11_ErrorsHarmless ==
    /\ last.valid =>
           LET f == <<last.cmd, last.pinId, last.value>>
           IN  /\ last.cmd \notin C11_Opcodes => last.out = <<238>>
               /\ C11_Rejected(f) <=> (\E i \in 1 .. Len(last.out) :
                                          last.out[i] = 238)
               /\ C11_Rejected(f) =>
                      /\ last.out = <<238>>
                      /\ hw = last.pre
                      /\ pc # "delay"
    /\ pc = "loop" =>
           hw = AfterBoot(SelectSeq(frames, C11_Accepted)).hw

\* C11 witness: after a boot in which four frames were answered ERROR,
\* the last of them just before it, PWM 3 128 has set motor 3 with the
\* pixel still red and motor 2 still running.
C11_Witness ==
    /\ pc = "loop"
    /\ Len(frames) = 9
    /\ frames[8] = <<4, 0, 7>>
    /\ last.valid
    /\ last.cmd = CMD_PWM
    /\ last.pinId = 3
    /\ last.value = 128
    /\ last.out = <<1>>
    /\ hw.ledc[PIN_M3_PWM] = 513
    /\ hw.ledc[PIN_M2_PWM] = 513
    /\ hw.led = <<255, 0, 0>>

\* C16.  Idempotence.  When the last two frames processed are NEOPIXEL
\* frames with the same palette value, the second leaves every output as
\* the first left it, the LED in the colour of that value, and both are
\* answered NEOPIXEL_OK (0x04); every PING frame in a run of PING frames is
\* answered READY (0xAA) and leaves every output as it was.
C16_Idempotent ==
    (pc = "loop" /\ Len(frames) >= 2 /\ Len(TxBoot) = 1 + Len(frames)) =>
        LET n == Len(frames)
            f == frames[n - 1]
            g == frames[n]
        IN  /\ (f[1] = 4 /\ g[1] = 4 /\ f[3] = g[3]
                    /\ g[3] \in C9_Palette) =>
                   /\ hw = last.pre
                   /\ hw.led = C9_Colour(g[3])
                   /\ TxBoot[n] = 4
                   /\ TxBoot[n + 1] = 4
            /\ (f[1] = 240 /\ g[1] = 240) =>
                   /\ hw = last.pre
                   /\ TxBoot[n] = 170
                   /\ TxBoot[n + 1] = 170

\* C16 witness: NEOPIXEL red has been processed twice in a row.
C16_Witness ==
    /\ pc = "loop"
    /\ Len(frames) = 2
    /\ frames[1][1] = 4
    /\ frames[2][1] = 4
    /\ frames[1][3] = 1
    /\ frames[2][3] = 1
    /\ hw.led = <<255, 0, 0>>
    /\ TxBoot = <<170, 4, 4>>

\* A NEOPIXEL frame with a palette value.
C17_Sets(f) == f[1] = 4 /\ f[3] \in C9_Palette

\* The colour of the most recent frame of fs that sets the indicator,
\* black when there is none.
RECURSIVE C17_Colour(_)
C17_Colour(fs) ==
    IF fs = <<>> THEN <<0, 0, 0>>
    ELSE IF C17_Sets(fs[Len(fs)]) THEN C9_Colour(fs[Len(fs)][3])
         ELSE C17_Colour(SubSeq(fs, 1, Len(fs) - 1))

\* C17.  Frame condition of the indicator.  The LED changes colour only in
\* the step that processes a NEOPIXEL frame with a palette value, or in
\* the boot after a restart; so within one boot the LED, and the pixel
\* buffer, show the colour of the most recent such frame processed, or
\* black when there was none.
C17_Step ==
    hw'.led # hw.led =>
        \/ pc = "process" /\ C17_Sets(cur)
        \/ pc = "setup"

C17_State ==
    pc # "setup" =>
        /\ hw.led = C17_Colour(Processed)
        /\ hw.pixels = C17_Colour(Processed)

C17_IndicatorFrame == [][C17_Step]_vars /\ []C17_State

\* C17 witness: the pixel was lit red by the first frame of the boot, seven
\* other frames, a rejected NEOPIXEL frame among them, and a SERVO frame
\* have been processed since, and the LED is red.
C17_Witness ==
    /\ pc = "loop"
    /\ Len(frames) = 9
    /\ frames[1] = <<4, 0, 1>>
    /\ frames[8] = <<4, 0, 7>>
    /\ last.valid
    /\ last.cmd = CMD_SERVO
    /\ hw.led = <<255, 0, 0>>

\* The response bytes of the protocol.
C18_Responses == {170, 1, 2, 3, 4, 187, 238}

\* C18.  Response set.  Every byte written to Serial is one of 0xAA, 0x01,
\* 0x02, 0x03, 0x04, 0xBB, 0xEE; a frame with an opcode in 0x01 .. 0x04 that
\* is not answered ERROR is answered with the byte equal to its opcode; and
\* a byte 0x01 .. 0x04 is written only in answer to the frame of that
\* opcode.
C18_ResponseSet ==
    /\ \A i \in 1 .. Len(tx) : tx[i] \in C18_Responses
    /\ last.valid =>
           /\ (last.cmd \in 1 .. 4 /\ last.out # <<238>>) =>
                  last.out = <<last.cmd>>
           /\ \A i \in 1 .. Len(last.out) :
                  last.out[i] \in 1 .. 4 => last.out[i] = last.cmd

\* C18 witness: PWM, DIGITAL, SERVO and NEOPIXEL frames have each been
\* answered with their opcode.
C18_Witness ==
    /\ last.valid
    /\ last.cmd = CMD_SERVO
    /\ last.out = <<3>>
    /\ tx = <<170, 4, 1, 2, 3, 3>>

\* C20.  Startup handshake.  setup() writes READY (0xAA) once, with the
\* pixel and the LED black and before any frame of the boot is read; so a
\* boot that follows a RESET frame starts with 0xBB, 0xAA on the line, the
\* LED is black when the loop starts whatever colour it had, and while the
\* loop waits the bytes written in this boot number one more than the
\* frames processed in it.
C20_Step ==
    pc = "setup" /\ pc' # pc =>
        /\ tx' = Append(tx, 170)
        /\ frames = <<>> /\ frames' = <<>>
        /\ hw'.led = <<0, 0, 0>>
        /\ hw'.pixels = <<0, 0, 0>>

C20_State ==
    /\ pc = "setup" => Len(tx) = txMark /\ frames = <<>>
    /\ pc # "setup" =>
           /\ Len(tx) > txMark
           /\ tx[txMark + 1] = 170
           /\ txMark > 0 => tx[txMark] = 187
           /\ \A i \in txMark + 2 .. Len(tx) :
                  tx[i] = 170 => frames[i - txMark - 1][1] = 240
    /\ pc \in {"loop", "delay"} => Len(tx) - txMark = 1 + Len(frames)
    /\ (pc = "loop" /\ frames = <<>>) => hw.led = <<0, 0, 0>>

C20_Handshake == [][C20_Step]_vars /\ []C20_State

\* C20 witness: NEOPIXEL red, then RESET, then the reboot: the line
\* carries 0xAA, 0x04, 0xBB, 0xAA and the LED is black again.
C20_Witness ==
    /\ pc = "loop"
    /\ nBoots = 2
    /\ tx = <<170, 4, 187, 170>>
    /\ hw.led = <<0, 0, 0>>
    /\ frames = <<>>

---------------------------------------------------------------------------
(* Properties of the encoder, checked under EncSpec.  mLog holds, for each *)
(* line the master has read, the line and the buffers it wrote for it.     *)

\* What the operator meant by the text of a line.
LineOf(text) == CHOOSE l \in EncLines : l.text = text

\* The number written by the decimal digits ds, for numbers the model's
\* integers hold.
RECURSIVE Number(_)
Number(ds) ==
    IF ds = <<>> THEN 0
    ELSE Number(SubSeq(ds, 1, Len(ds) - 1)) * 10 + DigitValue(ds[Len(ds)])

\* The digits ds write a byte.
IsByte(ds) == Len(ds) <= 3 /\ Number(ds) <= 255

\* The map T of decimal pin ids to tags.
C12_Tags == {11, 12, 21, 22, 31, 32, 41, 42}
C12_T(p) == IF p \in C12_Tags THEN ((p \div 10) * 16) + (p % 10) ELSE p

\* The frame of the table for the line l.
C12_Frame(l) ==
    CASE l.kind = "ping" -> <<240, 0, 0>>
      [] l.kind = "reset" -> <<255, 0, 0>>
      [] l.kind = "pwm" -> <<1, Number(l.a), Number(l.b)>>
      [] l.kind = "servo" -> <<3, 0, Number(l.b)>>
      [] l.kind = "neo" ->
            IF l.b = S_ff THEN <<4, 0, 255>> ELSE <<4, 0, Number(l.b)>>
      [] l.kind = "digital" -> <<2, C12_T(Number(l.a)), Number(l.b)>>

\* The lines of the table whose arguments are bytes.
C12_InTable(l) ==
    /\ l.kind \in {"ping", "reset", "pwm", "servo", "neo", "digital"}
    /\ l.a = <<>> \/ IsByte(l.a)
    /\ l.b = <<>> \/ l.b = S_ff \/ IsByte(l.b)

\* C12.  Encoder frame table.  For every line the master has read that is,
\* white space at its ends apart, a command of the table with byte
\* arguments, the master wrote the frame of the table: ping [0xF0,0,0],
\* reset [0xFF,0,0], pwm m v [0x01,m,v], servo v [0x03,0,v], neo ff
\* [0x04,0,0xFF], neo c [0x04,0,c], digital p v [0x02,T(p),v].
C12_FrameTable ==
    \A k \in 1 .. Len(mLog) :
        LET l == LineOf(mLog[k].line)
        IN  C12_InTable(l) => mLog[k].writes = <<C12_Frame(l)>>

\* C12 witness: 'digital 21 1' was answered with [0x02,0x21,0x01] and then
\* 'digital 17 0' with [0x02,0x11,0x00], the id 17 unchanged.
C12_Witness ==
    /\ Len(mLog) = 2
    /\ mLog[1].line = S_digital \o <<"2", "1", " ", "1">>
    /\ mLog[1].writes = << <<2, 33, 1>> >>
    /\ mLog[2].line = S_digital \o <<"1", "7", " ", "0">>
    /\ mLog[2].writes = << <<2, 17, 0>> >>

\* The lines for which a frame is sent: ping, reset, and the lines that
\* start with a command word and a space, well formed or not.
C13_FrameKinds ==
    {"ping", "reset", "pwm", "servo", "neo", "digital", "malformed"}

\* The buffers written for the lines of log, end to end.
RECURSIVE C13_Written(_)
C13_Written(log) ==
    IF log = <<>> THEN <<>>
    ELSE Flatten(log[1].writes) \o C13_Written(Tail(log))

\* C13.  Encoder frame count.  For every line read, the master made one
\* write of three bytes when the line, white space at its ends apart, is
\* ping or reset or starts with 'pwm ', 'servo ', 'neo ' or 'digital ', and
\* no write for status, for an empty line and for any other line; the
\* bytes on the link are the frames written, in the order of the lines.
C13_FrameCount ==
    /\ \A k \in 1 .. Len(mLog) :
           LET l == LineOf(mLog[k].line)
               w == mLog[k].writes
           IN  /\ l.kind \in C13_FrameKinds => Len(w) = 1 /\ Len(w[1]) = 3
               /\ l.kind \notin C13_FrameKinds => w = <<>>
    /\ link = C13_Written(mLog)
    /\ Len(link) % 3 = 0
    /\ Len(link) =
           3 * Cardinality({k \in 1 .. Len(mLog) :
                               LineOf(mLog[k].line).kind \in C13_FrameKinds})

\* C13 witness: status, then 'neo FF': the link holds the one frame of the
\* second line.
C13_Witness ==
    /\ Len(mLog) = 2
    /\ mLog[1].line = S_status
    /\ mLog[1].writes = <<>>
    /\ mLog[2].line = S_neo \o <<"F", "F">>
    /\ link = <<4, 0, 0>>

\* The number written by the decimal digits ds, modulo 256, for digits of
\* any length.
RECURSIVE C14_Mod256(_)
C14_Mod256(ds) ==
    IF ds = <<>> THEN 0
    ELSE (C14_Mod256(SubSeq(ds, 1, Len(ds) - 1)) * 10
              + DigitValue(ds[Len(ds)])) % 256

\* The digits ds write a number of 0 .. 2147483647, the range of a long.
C14_FitsLong(ds) == Len(ds) <= 9 \/ ds = Dec(2147483647)

\* The commands with numeric arguments.
C14_Numeric(l) ==
    l.kind \in {"pwm", "servo", "digital"} \/ (l.kind = "neo" /\ l.b # S_ff)

\* The frame of a command with its arguments taken modulo 256.
C14_Frame(l) ==
    CASE l.kind = "pwm" -> <<1, C14_Mod256(l.a), C14_Mod256(l.b)>>
      [] l.kind = "servo" -> <<3, 0, C14_Mod256(l.b)>>
      [] l.kind = "neo" -> <<4, 0, C14_Mod256(l.b)>>
      [] l.kind = "digital" ->
            <<2, C12_T(Number(l.a)) % 256, C14_Mod256(l.b)>>

\* C14 as stated: for any non-negative arguments the bytes sent are the
\* arguments modulo 256.  Violated by 'pwm 1 4294967296', whose value byte
\* is 0xFF and not 0x00.
C14_AnyArgumentMod256 ==
    \A k \in 1 .. Len(mLog) :
        LET l == LineOf(mLog[k].line)
        IN  C14_Numeric(l) => mLog[k].writes = <<C14_Frame(l)>>

\* C14.  No range validation.  For pwm, servo, neo and digital with
\* arguments of 0 .. 2147483647 one frame is sent, whose target and value
\* bytes are the arguments modulo 256 (after the digital lookup); an
\* argument above 2147483647 is sent as 0xFF; 'pwm 257 300' sends
\* [0x01,0x01,0x2C], which processCommand answers PWM_OK, setting the duty
\* of motor 1.
C14_NoRangeValidation ==
    \A k \in 1 .. Len(mLog) :
        LET l == LineOf(mLog[k].line)
            w == mLog[k].writes
        IN  C14_Numeric(l) =>
                /\ Len(w) = 1
                /\ w[1][1] = C14_Frame(l)[1]
                /\ w[1][2] = C14_Frame(l)[2]
                /\ w[1][3] = IF C14_FitsLong(l.b) THEN C14_Frame(l)[3]
                             ELSE 255
                /\ (l.kind = "pwm" /\ l.a = Dec(257) /\ l.b = Dec(300)) =>
                       /\ w = << <<1, 1, 44>> >>
                       /\ LET o == AfterBoot(w)
                          IN  /\ o.out = <<170, 1>>
                              /\ o.hw.ledc[PIN_M1_PWM] = (44 * 1023) \div 255

\* C14 witness: 'pwm 257 300' sent [0x01,0x01,0x2C] and 'servo 2147483648'
\* sent [0x03,0x00,0xFF].
C14_Witness ==
    /\ Len(mLog) = 2
    /\ mLog[1].line = S_pwm \o Dec(257) \o <<" ">> \o Dec(300)
    /\ mLog[1].writes = << <<1, 1, 44>> >>
    /\ mLog[2].line = S_servo \o Digits2p31
    /\ mLog[2].writes = << <<3, 0, 255>> >>

---------------------------------------------------------------------------
(* Properties of the two boards together, checked under LinkSpec.          *)

\* The frames the master wrote, each with the line it was written for.
RECURSIVE C15_Frames(_)
C15_Frames(log) ==
    IF log = <<>> THEN <<>>
    ELSE (IF log[1].writes = <<>> THEN <<>>
          ELSE <<[line |-> log[1].line, frame |-> log[1].writes[1]]>>)
             \o C15_Frames(Tail(log))

\* The place in the bytes the master wrote where the bytes received by the
\* slave since it booted begin: the bytes that left the link, less the
\* bytes received.
C15_Offset == (Len(C13_Written(mLog)) - Len(link)) - Len(rxStream)

\* Master and slave are frame-aligned: the slave runs, and the bytes it
\* has received begin at the first byte of a frame of the master.
C15_Aligned == pc # "setup" /\ C15_Offset % 3 = 0

\* Commands with arguments in range.
C15_InRange(l) ==
    \/ l.kind = "ping"
    \/ l.kind = "pwm" /\ IsByte(l.a) /\ IsByte(l.b) /\ Number(l.a) \in 1 .. 4
    \/ l.kind = "digital" /\ IsByte(l.a) /\ IsByte(l.b)
           /\ Number(l.a) \in C12_Tags
    \/ l.kind = "servo" /\ IsByte(l.b) /\ Number(l.b) \in 0 .. 180
    \/ l.kind = "neo" /\ (l.b = S_ff \/ (IsByte(l.b) /\ Number(l.b) \in 0 .. 3))

\* The response to the command of line l.
C15_Response(l) ==
    CASE l.kind = "ping" -> 170
      [] l.kind = "pwm" -> 1
      [] l.kind = "digital" -> 2
      [] l.kind = "servo" -> 3
      [] l.kind = "neo" -> 4

\* The outputs after the command of line l, from the outputs h.
C15_Action(l, h) ==
    CASE l.kind = "ping" -> h
      [] l.kind = "pwm" ->
            [h EXCEPT !.ledc[MotorPin(Number(l.a))] =
                          (Number(l.b) * 1023) \div 255]
      [] l.kind = "digital" ->
            [h EXCEPT !.gpio[C7_PinOfTag(C12_T(Number(l.a)))] =
                          IF Number(l.b) = 0 THEN LOW ELSE HIGH]
      [] l.kind = "servo" ->
            [h EXCEPT !.ledc[PIN_SERVO1] =
                          1638 + (Number(l.b) * (8192 - 1638)) \div 180]
      [] l.kind = "neo" ->
            LET c == C9_Colour(IF l.b = S_ff THEN 255 ELSE Number(l.b))
            IN  [h EXCEPT !.pixels = c, !.led = c]

\* C15.  End-to-end success path.  When master and slave are
\* frame-aligned, the frame the slave has just processed is the frame the
\* master wrote for a line; when that line is a command with arguments in
\* range, the slave has done what the command says and answered 0x01 to
\* pwm, 0x02 to digital, 0x03 to servo, 0x04 to neo and 0xAA to ping:
\* 'digital 21 1' sends [0x02,0x21,0x01], drives GPIO 27 HIGH and is
\* answered 0x02; 'neo ff' sends [0x04,0x00,0xFF], makes the LED white and
\* is answered 0x04.
C15_EndToEnd ==
    (C15_Aligned /\ last.valid /\ pc \in {"loop", "delay"}) =>
        LET sent == C15_Frames(mLog)
            j == C15_Offset \div 3 + Len(frames)
            l == LineOf(sent[j].line)
        IN  /\ j \in 1 .. Len(sent)
            /\ frames[Len(frames)] = sent[j].frame
            /\ <<last.cmd, last.pinId, last.value>> = sent[j].frame
            /\ C15_InRange(l) =>
                   /\ last.out = <<C15_Response(l)>>
                   /\ hw = C15_Action(l, last.pre)
            /\ l.text = S_digital \o Dec(21) \o <<" ">> \o Dec(1) =>
                   /\ sent[j].frame = <<2, 33, 1>>
                   /\ hw.gpio[27] = HIGH
                   /\ last.out = <<2>>
            /\ l.text = S_neo \o S_ff =>
                   /\ sent[j].frame = <<4, 0, 255>>
                   /\ hw.led = <<255, 255, 255>>
                   /\ last.out = <<4>>

\* C15 witness: 'digital 21 1' and 'neo ff' have travelled to the slave:
\* GPIO 27 is HIGH, the LED is white, the slave has written 0xAA, 0x02,
\* 0x04.
C15_Witness ==
    /\ C15_Aligned
    /\ pc = "loop"
    /\ Len(mLog) = 2
    /\ mLog[1].line = S_digital \o Dec(21) \o <<" ">> \o Dec(1)
    /\ mLog[2].line = S_neo \o S_ff
    /\ frames = << <<2, 33, 1>>, <<4, 0, 255>> >>
    /\ hw.gpio[27] = HIGH
    /\ hw.led = <<255, 255, 255>>
    /\ tx = <<170, 2, 4>>

---------------------------------------------------------------------------
(* Properties of the relay, checked under RelaySpec.                       *)

\* The bytes of the 'Slave resp' lines the master has printed.
RECURSIVE C19_Bytes(_)
C19_Bytes(ps) ==
    IF ps = <<>> THEN <<>>
    ELSE (IF ps[1].kind = "Slave resp" THEN <<ps[1].a>> ELSE <<>>)
             \o C19_Bytes(Tail(ps))

C19_Relayed == C19_Bytes(printed)

\* The most bytes the slave writes: READY, and for each line a response
\* and the READY of a reboot.
C19_MaxTx == 1 + 2 * MaxLines

\* C19 as stated: the printed responses are the bytes the slave has sent,
\* in order, and every byte sent is printed in the end.  Violated when the
\* slave writes READY before the master's setup(): the master prints
\* [0xAA] for a slave that wrote [0xAA, 0xAA].
C19_EveryByteRelayed ==
    /\ []IsPrefix(C19_Relayed, tx)
    /\ \A n \in 1 .. C19_MaxTx :
           (Len(tx) >= n) ~> (Len(C19_Relayed) >= n)

\* An iteration of the master's loop reads at most one byte, and prints
\* one line for the byte it reads, also when it obeys a line in the same
\* iteration; nothing else changes the printed responses.
C19_Step ==
    mpc = "loop" =>
        /\ mRead' \in {mRead, mRead + 1}
        /\ mRead' = mRead + 1 =>
               C19_Relayed' = Append(C19_Relayed, tx[mRead + 1])
        /\ mRead' = mRead => C19_Relayed' = C19_Relayed
        /\ (mLog' # mLog /\ mRead < Len(tx)) => mRead' = mRead + 1

\* The printed responses are the bytes the slave has sent since the
\* master's setup(), in order, as far as the master has read; before it
\* the slave can have sent its first READY only.
C19_State ==
    /\ mpc = "setup" => mRead = 0 /\ C19_Relayed = <<>>
    /\ mpc = "loop" =>
           LET missed == mRead - Len(C19_Relayed)
           IN  /\ missed \in {0, 1}
               /\ missed = 1 => tx[1] = 170 /\ nBoots >= 1
               /\ mRead <= Len(tx)
               /\ C19_Relayed = SubSeq(tx, missed + 1, mRead)

\* C19.  Master response relay.  Every byte the slave sends after the
\* master's setup() is read by the master in the end and printed as one
\* 'Slave resp' line, in the order received; the master reads at most one
\* byte in an iteration of its loop, also when it obeys a line in it, and
\* discards none.  The READY a slave sent before the master's setup() is
\* not received.
C19_Relay ==
    /\ [][C19_Step]_vars
    /\ []C19_State
    /\ \A n \in 1 .. C19_MaxTx :
           (mpc = "loop" /\ Len(tx) >= n) ~> (mRead >= n)

\* C19 witness: the slave booted before the master; it answered ping, and
\* the master printed the answer in the iteration in which it obeyed
\* status.
C19_Witness ==
    /\ tx = <<170, 170>>
    /\ mRead = 2
    /\ printed = <<Printed("PING", 0, 0), Printed("Estado", 0, 0),
                   Printed("Slave resp", 170, 0)>>

=============================================================================
